---- MODULE Spec2Model ----
(***************************************************************************)
(* Model of api/webhook.py: the Telegram webhook of the Bybit funding bot. *)
(* One POST is received, parsed, dispatched to a command handler, the      *)
(* handler talks to the exchange and to Telegram, and the POST is          *)
(* acknowledged.                                                           *)
(*                                                                         *)
(* Texts are sequences of one-character strings.  The character "SUP2"     *)
(* stands for U+00B2 (superscript two): str.isdigit() accepts it, int()    *)
(* does not.  Funding rates are integers in units of the exchange's        *)
(* smallest rate step.  Outbound chat texts are records naming the         *)
(* template and the values formatted into it.                              *)
(***************************************************************************)
EXTENDS Integers, Sequences, FiniteSets, TLC

VARIABLES pc, request, creds, chat_id, command, args, positive,
          limit, fetch_limit, funding_list, exchange, handler_exc,
          requests, sent, log, http

vars == <<pc, request, creds, chat_id, command, args, positive,
          limit, fetch_limit, funding_list, exchange, handler_exc,
          requests, sent, log, http>>

\* ------------------------------------------------------------ bounds
\* Longest ticker list enumerated exhaustively.
MaxTickers == 3
\* Tickers beyond the ranking window in the long ticker list.
Surplus == 1

\* ------------------------------------------------------- program constants
FUNDING_DEFAULT == 20
FUNDING_MAX == 50
TOP_DEFAULT == 10
TOP_MAX == 30
TOP_WINDOW == 200

\* ------------------------------------------------------------ helpers
Min(a, b) == IF a <= b THEN a ELSE b
Max(a, b) == IF a >= b THEN a ELSE b
Abs(x) == IF x < 0 THEN -x ELSE x

\* F applied to the value of v, v evaluated once.
With(v, F(_)) == CHOOSE r \in {F(x) : x \in {v}} : TRUE

\* Mutant of Take: the slice is forgotten.
Take_Whole(s, n) == s

\* list[:n] of Python, negative n included.
Take(s, n) ==
    With(s, LAMBDA l : IF n >= 0 THEN SubSeq(l, 1, Min(n, Len(l)))
                       ELSE SubSeq(l, 1, Max(Len(l) + n, 0)))


\* ------------------------------------------------------------ characters
Whitespace == {" "}
DecimalChars == {"0", "1", "2", "3", "4", "5", "6", "7", "8", "9"}
\* str.isdigit(): the decimal digits and the digit-like characters.
DigitChars == DecimalChars \cup {"SUP2"}

DigitValue(c) ==
    CASE c = "0" -> 0 [] c = "1" -> 1 [] c = "2" -> 2 [] c = "3" -> 3
      [] c = "4" -> 4 [] c = "5" -> 5 [] c = "6" -> 6 [] c = "7" -> 7
      [] c = "8" -> 8 [] c = "9" -> 9

\* str.lower() on the letters the inputs use.
LowerChar(c) ==
    CASE c = "F" -> "f" [] c = "H" -> "h" [] c = "E" -> "e"
      [] c = "L" -> "l" [] c = "P" -> "p" [] c = "T" -> "t"
      [] c = "O" -> "o" [] OTHER -> c

Lower(s) == [i \in 1..Len(s) |-> LowerChar(s[i])]

\* Index of the first character of s that is in set, Len(s)+1 when none is.
FirstIn(s, set) ==
    IF \E i \in 1..Len(s) : s[i] \in set
    THEN CHOOSE i \in 1..Len(s) : s[i] \in set /\ \A j \in 1..(i-1) : s[j] \notin set
    ELSE Len(s) + 1

FirstNotIn(s, set) ==
    IF \E i \in 1..Len(s) : s[i] \notin set
    THEN CHOOSE i \in 1..Len(s) : s[i] \notin set /\ \A j \in 1..(i-1) : s[j] \in set
    ELSE Len(s) + 1

LastNotIn(s, set) ==
    IF \E i \in 1..Len(s) : s[i] \notin set
    THEN CHOOSE i \in 1..Len(s) : s[i] \notin set /\ \A j \in (i+1)..Len(s) : s[j] \in set
    ELSE 0

LStrip(s) == SubSeq(s, FirstNotIn(s, Whitespace), Len(s))
\* str.strip()
Strip(s) == SubSeq(s, FirstNotIn(s, Whitespace), LastNotIn(s, Whitespace))

\* text.split(maxsplit=1): the first whitespace-free token, then the rest
\* with its leading whitespace removed (trailing whitespace kept).
Split1(s) ==
    LET t == LStrip(s)
        cut == FirstIn(t, Whitespace)
        rest == LStrip(SubSeq(t, cut, Len(t)))
    IN  IF t = <<>> THEN <<>>
        ELSE IF rest = <<>> THEN <<SubSeq(t, 1, cut - 1)>>
        ELSE <<SubSeq(t, 1, cut - 1), rest>>

\* Mutant of BeforeAt: the suffix is not cut off.
BeforeAt_Uncut(s) == s

\* command.split("@")[0]
BeforeAt(s) == SubSeq(s, 1, FirstIn(s, {"@"}) - 1)

\* str.isdigit(): non-empty and every character a digit character.
IsDigit(s) == s # <<>> /\ \A i \in 1..Len(s) : s[i] \in DigitChars

RECURSIVE DecimalValue(_)
DecimalValue(s) ==
    IF s = <<>> THEN 0
    ELSE 10 * DecimalValue(SubSeq(s, 1, Len(s) - 1)) + DigitValue(s[Len(s)])

IsDecimal(s) == s # <<>> /\ \A i \in 1..Len(s) : s[i] \in DecimalChars

\* int(s): surrounding whitespace ignored, an optional sign, decimal digits;
\* anything else raises ValueError.
IntOf(s) ==
    LET t == Strip(s)
        neg == t # <<>> /\ t[1] = "-"
        body == IF t # <<>> /\ t[1] \in {"-", "+"} THEN Tail(t) ELSE t
    IN  IF IsDecimal(body)
        THEN [exc |-> FALSE, val |-> IF neg THEN -DecimalValue(body) ELSE DecimalValue(body)]
        ELSE [exc |-> TRUE, msg |-> "invalid literal for int()"]

\* float(x) of a JSON value: a number is itself, a string is parsed
\* (optional sign, decimal digits), anything else raises.
FloatOf(field) ==
    IF field.t = "num" THEN [exc |-> FALSE, val |-> field.n]
    ELSE IF field.t = "str"
    THEN LET r == IntOf(field.s)
         IN IF r.exc THEN [exc |-> TRUE, msg |-> "could not convert string to float"] ELSE r
    ELSE [exc |-> TRUE, msg |-> "float() argument must be a string or a real number"]

\* Python truthiness of a JSON value: None, "" and 0 are false.
Truthy(field) ==
    CASE field.t = "none" -> FALSE
      [] field.t = "str" -> field.s # <<>>
      [] field.t = "num" -> field.n # 0

\* ------------------------------------------------------------ JSON values
None == [t |-> "none"]
Str(s) == [t |-> "str", s |-> s]
Num(n) == [t |-> "num", n |-> n]

\* dict.get(key, default): the default only when the key is absent.
GetOr(field, default) == IF field.t = "none" THEN default ELSE field

\* ------------------------------------------------------------ exceptions
Raise(m) == [exc |-> TRUE, msg |-> m]
Return(v) == [exc |-> FALSE, val |-> v]
NoResponse == [net |-> "none", retCode |-> 0, retMsg |-> "", result |-> <<>>]

\* ------------------------------------------------------------ Bybit API
\* bybit_request: urlopen raises on a transport failure; a non-zero retCode
\* raises Exception(retMsg); otherwise the envelope's result.
bybit_request(resp) ==
    IF resp.net # "ok" THEN Raise("timed out")
    ELSE IF resp.retCode # 0 THEN Raise(resp.retMsg)
    ELSE Return(resp.result)

Quote(ticker) ==
    LET rate == FloatOf(ticker.fundingRate).val
    IN  [symbol |-> ticker.symbol, funding_rate |-> rate,
         funding_rate_pct |-> rate * 100, abs_funding_rate |-> Abs(rate)]

\* The largest key of a sequence of [key, val] pairs, keys being >= 0.
MaxKey(keyed) ==
    With({keyed[i].key : i \in 1..Len(keyed)} \cup {0},
         LAMBDA keys : CHOOSE m \in keys : \A k \in keys : k <= m)

\* The pairs with key k in their order, then those with k-1, ... down to 0.
RECURSIVE BucketsDown(_, _)
BucketsDown(keyed, k) ==
    IF k < 0 THEN <<>>
    ELSE SelectSeq(keyed, LAMBDA q : q.key = k) \o BucketsDown(keyed, k - 1)

\* list.sort(key=..., reverse=True) on [key, val] pairs: descending by key,
\* stable (equal keys keep their order); the sorted vals.
SortDesc(keyed) ==
    With(keyed, LAMBDA l :
        With(BucketsDown(l, MaxKey(l)), LAMBDA sorted :
            [i \in 1..Len(sorted) |-> sorted[i].val]))

\* key=lambda x: x["abs_funding_rate"]
AbsKey(q) == q.abs_funding_rate
\* key=lambda x: abs(x["funding_rate"])
AbsRateKey(q) == Abs(q.funding_rate)

\* get_funding_rates(limit) against the exchange's answer resp.
get_funding_rates(resp, lim) ==
    LET r == bybit_request(resp)
    IN  IF r.exc THEN r
        ELSE With(SelectSeq(r.val, LAMBDA t : Truthy(t.fundingRate)),
                  LAMBDA kept :
                    IF \E i \in 1..Len(kept) : FloatOf(kept[i].fundingRate).exc
                    THEN Raise("could not convert string to float")
                    ELSE Return(Take(SortDesc([i \in 1..Len(kept) |->
                                        With(Quote(kept[i]),
                                             LAMBDA q : [key |-> AbsKey(q), val |-> q])]),
                                     lim)))

HasCreds(c) == c.api_key # "" /\ c.api_secret # ""

\* The private fetches read the body and return its result without looking
\* at retCode.  io tells whether a request went out.
private_fetch(resp) ==
    IF resp.net # "ok" THEN Raise("timed out") ELSE Return(resp.result)

get_portfolio(c, resp) ==
    IF ~HasCreds(c) THEN [exc |-> FALSE, io |-> FALSE, val |-> [error |-> TRUE, list |-> <<>>]]
    ELSE LET r == private_fetch(resp)
         IN  IF r.exc THEN [exc |-> TRUE, io |-> TRUE, msg |-> r.msg]
             ELSE [exc |-> FALSE, io |-> TRUE, val |-> [error |-> FALSE, list |-> r.val]]

\* Mutant of get_positions: the request goes out without the credential check.
get_positions_Unchecked(c, resp) ==
    LET r == private_fetch(resp)
    IN  IF r.exc THEN [exc |-> TRUE, io |-> TRUE, msg |-> r.msg]
        ELSE [exc |-> FALSE, io |-> TRUE, val |-> r.val]

get_positions(c, resp) ==
    IF ~HasCreds(c) THEN [exc |-> FALSE, io |-> FALSE, val |-> <<>>]
    ELSE LET r == private_fetch(resp)
         IN  IF r.exc THEN [exc |-> TRUE, io |-> TRUE, msg |-> r.msg]
             ELSE [exc |-> FALSE, io |-> TRUE, val |-> r.val]

\* ------------------------------------------------------------ outbound texts
\* f"오류: {str(e)}"
ErrorText(m) == [kind |-> "error", msg |-> m]
HelpText == [kind |-> "help"]
\* wallet_data["error"]: "API 키가 설정되지 않았습니다"
NoKeyText == [kind |-> "no_api_key"]

FundingLine(i, f) ==
    [rank |-> i,
     emoji |-> IF f.funding_rate_pct < 0 THEN "red" ELSE "green",
     symbol |-> f.symbol,
     sign |-> IF f.funding_rate_pct > 0 THEN "+" ELSE "",
     pct |-> f.funding_rate_pct]

\* Lines 167-177: header, one line per listed quote, footer.
FundingText(lim, fl) ==
    With(Take(fl, lim),
         LAMBDA shown :
           With(Cardinality({i \in 1..Len(shown) : shown[i].funding_rate > 0}),
                LAMBDA pos :
                  [kind |-> "funding", title_limit |-> lim,
                   lines |-> [i \in 1..Len(shown) |-> FundingLine(i, shown[i])],
                   positive |-> pos, negative |-> lim - pos]))

FilteredLine(i, f) ==
    [rank |-> i, symbol |-> f.symbol,
     sign |-> IF f.funding_rate_pct > 0 THEN "+" ELSE "",
     pct |-> f.funding_rate_pct]

\* Lines 191-204: filter by sign, sort again, list the first limit.
Filtered(fl, pos) ==
    With(SelectSeq(fl, LAMBDA f : IF pos THEN f.funding_rate > 0 ELSE f.funding_rate < 0),
         LAMBDA kept :
           SortDesc([i \in 1..Len(kept) |-> [key |-> AbsRateKey(kept[i]), val |-> kept[i]]]))

FilteredText(lim, fl, pos) ==
    With(Take(Filtered(fl, pos), lim),
         LAMBDA shown :
           [kind |-> "filtered", polarity |-> pos, title_limit |-> lim,
            lines |-> [i \in 1..Len(shown) |-> FilteredLine(i, shown[i])]])

\* limit = int(args) if args.strip().isdigit() else default; min(limit, max)
EffectiveLimit(a, default, max) ==
    IF IsDigit(Strip(a))
    THEN LET r == IntOf(a)
         IN  IF r.exc THEN r ELSE Return(Min(r.val, max))
    ELSE Return(Min(default, max))

\* Lines 222-231: the USDT entry of the first account, if any.
WalletSection(wallet_data) ==
    IF wallet_data.list = <<>> THEN Return(<<>>)
    ELSE LET coins == wallet_data.list[1].coin
             at == FirstIn([i \in 1..Len(coins) |-> coins[i].coin], {"USDT"})
         IN  IF at > Len(coins) THEN Return(<<>>)
             ELSE LET e == FloatOf(GetOr(coins[at].equity, Num(0)))
                      a == FloatOf(GetOr(coins[at].availableToWithdraw, Num(0)))
                  IN  IF e.exc THEN e
                      ELSE IF a.exc THEN a
                      ELSE Return(<<[equity |-> e.val, available |-> a.val]>>)

PositionLine(pos) ==
    LET pnl == FloatOf(GetOr(pos.unrealisedPnl, Num(0)))
    IN  IF pnl.exc THEN pnl
        ELSE Return([symbol |-> pos.symbol,
                     direction |-> IF pos.side = "Buy" THEN "L" ELSE "S",
                     leverage |-> pos.leverage,
                     pnl_sign |-> IF pnl.val >= 0 THEN "+" ELSE "",
                     pnl |-> pnl.val])

\* Lines 233-248: the positions of size > 0, in the exchange's order.
PositionSection(positions) ==
    LET sizes == [i \in 1..Len(positions) |-> FloatOf(GetOr(positions[i].size, Num(0)))]
    IN  IF \E i \in 1..Len(positions) : sizes[i].exc
        THEN Raise("could not convert string to float")
        ELSE LET idx == SelectSeq([i \in 1..Len(positions) |-> i], LAMBDA i : sizes[i].val > 0)
                 rows == [k \in 1..Len(idx) |-> PositionLine(positions[idx[k]])]
             IN  IF \E k \in 1..Len(rows) : rows[k].exc
                 THEN Raise("could not convert string to float")
                 ELSE Return([k \in 1..Len(rows) |-> rows[k].val])

PortfolioText(wallet, rows) ==
    [kind |-> "portfolio", wallet |-> wallet, count |-> Len(rows),
     positions |-> rows, no_positions |-> rows = <<>>]

\* ------------------------------------------------------------ Telegram
\* send_telegram: one POST to sendMessage; any failure is swallowed and
\* reported as False.
send_telegram(chat, text, ok) == [chat_id |-> chat, text |-> text, delivered |-> ok]

\* ------------------------------------------------------------ handler bodies
\* The try block of a handler: what it raised or the text it built, the
\* exchange requests it issued, and its locals.
Outcome(exc, msg, text, io, lim, fetch, list) ==
    [exc |-> exc, msg |-> msg, text |-> text, io |-> io,
     limit |-> lim, fetch_limit |-> fetch, list |-> list]

funding_body(a, resp) ==
    LET l == EffectiveLimit(a, FUNDING_DEFAULT, FUNDING_MAX)
    IN  IF l.exc THEN Outcome(TRUE, l.msg, HelpText, <<>>, -1, -1, <<>>)
        ELSE With(get_funding_rates(resp, l.val),
                  LAMBDA g :
                    IF g.exc
                    THEN Outcome(TRUE, g.msg, HelpText, <<"tickers">>, l.val, l.val, <<>>)
                    ELSE Outcome(FALSE, "", FundingText(l.val, g.val), <<"tickers">>,
                                 l.val, l.val, g.val))

top_bottom_body(a, pos, resp) ==
    LET l == EffectiveLimit(a, TOP_DEFAULT, TOP_MAX)
    IN  IF l.exc THEN Outcome(TRUE, l.msg, HelpText, <<>>, -1, -1, <<>>)
        ELSE With(get_funding_rates(resp, TOP_WINDOW),
                  LAMBDA g :
                    IF g.exc
                    THEN Outcome(TRUE, g.msg, HelpText, <<"tickers">>, l.val, TOP_WINDOW, <<>>)
                    ELSE Outcome(FALSE, "", FilteredText(l.val, g.val, pos), <<"tickers">>,
                                 l.val, TOP_WINDOW, g.val))

portfolio_body(c, wresp, presp) ==
    LET w == get_portfolio(c, wresp)
        wio == IF w.io THEN <<"wallet-balance">> ELSE <<>>
    IN  IF w.exc THEN Outcome(TRUE, w.msg, HelpText, wio, -1, -1, <<>>)
        ELSE LET p == get_positions(c, presp)
                 io == wio \o (IF p.io THEN <<"position-list">> ELSE <<>>)
             IN  IF p.exc THEN Outcome(TRUE, p.msg, HelpText, io, -1, -1, <<>>)
                 ELSE IF w.val.error THEN Outcome(FALSE, "", NoKeyText, io, -1, -1, <<>>)
                 ELSE LET ws == WalletSection(w.val)
                          ps == PositionSection(p.val)
                      IN  IF ws.exc THEN Outcome(TRUE, ws.msg, HelpText, io, -1, -1, <<>>)
                          ELSE IF ps.exc THEN Outcome(TRUE, ps.msg, HelpText, io, -1, -1, <<>>)
                          ELSE Outcome(FALSE, "", PortfolioText(ws.val, ps.val), io, -1, -1, <<>>)

\* Mutant of Handled: no except clause, the exception leaves the handler.
Handled_Uncaught(r) ==
    IF r.exc THEN [send |-> <<>>, escaped |-> <<r.msg>>]
    ELSE [send |-> <<r.text>>, escaped |-> <<>>]

\* try: ... send_telegram(text)  except Exception as e: send_telegram(오류)
\* send: the texts handed to send_telegram; escaped: what leaves the handler.
Handled(r) ==
    IF r.exc THEN [send |-> <<ErrorText(r.msg)>>, escaped |-> <<>>]
    ELSE [send |-> <<r.text>>, escaped |-> <<>>]

\* ------------------------------------------------------------ inputs
Bot == <<"@", "m", "y", "b", "o", "t">>
ListTokens ==
    { <<"/", "f", "u", "n", "d", "i", "n", "g">>, <<"/", "f">>, <<"/", "F">>,
      <<"/", "F">> \o Bot, <<"/", "t", "o", "p">>, <<"/", "b", "o", "t", "t", "o", "m">> }
OtherTokens ==
    { <<"/", "s", "t", "a", "r", "t">>, <<"/", "h", "e", "l", "p">>,
      <<"/", "H", "E", "L", "P">> \o Bot \o Bot,
      <<"/", "p", "o", "r", "t", "f", "o", "l", "i", "o">>, <<"/", "p">>,
      <<"/", "P">> \o Bot,
      <<"/", "x", "y", "z">>, <<"/", "f", "u", "n", "d">>, <<"f">>,
      Bot \o <<"/", "f">>, <<>>, <<" ">>, <<" ", "/", "h", "e", "l", "p", " ">> }
ArgTexts ==
    { <<>>, <<"0">>, <<"2">>, <<"7">>, <<"9", "9", "9">>, <<"-", "5">>,
      <<"7">> \o Bot, <<"SUP2">>, <<"7", " ">> }

TextOf(tok, a) == IF a = <<>> THEN tok ELSE tok \o <<" ">> \o a

Texts == {TextOf(tok, a) : tok \in ListTokens, a \in ArgTexts} \cup OtherTokens

\* chat ids; 0 stands for a missing, null or zero id.  Every text comes
\* from chat 7 and without an id, some of them from a second chat as well.
ChatIds == {0, 7}
SecondChatTexts == OtherTokens \cup {TextOf(tok, <<"2">>) : tok \in ListTokens}

Messages ==
    {[t |-> "dict", chat |-> [t |-> "dict", id |-> c], text |-> Str(x)] :
        c \in ChatIds, x \in Texts}
    \cup {[t |-> "dict", chat |-> [t |-> "dict", id |-> 8], text |-> Str(x)] :
            x \in SecondChatTexts}
    \cup {[t |-> "dict", chat |-> [t |-> "dict", id |-> 7], text |-> None],
          [t |-> "dict", chat |-> [t |-> "dict", id |-> 7], text |-> Num(5)],
          [t |-> "dict", chat |-> [t |-> "none", id |-> 0], text |-> Str(<<"/", "p">>)],
          [t |-> "dict", chat |-> [t |-> "other", id |-> 0], text |-> Str(<<"/", "p">>)],
          [t |-> "other", chat |-> [t |-> "none", id |-> 0], text |-> None],
          [t |-> "none", chat |-> [t |-> "none", id |-> 0], text |-> None]}

NoMessage == [t |-> "none", chat |-> [t |-> "none", id |-> 0], text |-> None]

Bodies ==
    {[kind |-> "object", message |-> m] : m \in Messages}
    \cup {[kind |-> "malformed", message |-> NoMessage],
          [kind |-> "nonobject", message |-> NoMessage]}

\* Content-Length header: a number, absent (read as 0), or not a number.
Requests ==
    {[content_length |-> "valid", body |-> b] : b \in Bodies}
    \cup {[content_length |-> h, body |-> [kind |-> "object", message |-> m]] :
            h \in {"absent", "invalid"},
            m \in {[t |-> "dict", chat |-> [t |-> "dict", id |-> 7],
                    text |-> Str(<<"/", "h", "e", "l", "p">>)]}}

Ticker(i, field) == [symbol |-> ToString(i), fundingRate |-> field]

CoreFields == {None, Str(<<>>), Str(<<"0">>), Str(<<"1">>), Str(<<"-", "2">>)}

ShortLists ==
    UNION {{[i \in 1..n |-> Ticker(i, f[i])] : f \in [1..n -> CoreFields]} : n \in 0..MaxTickers}

OddLists ==
    { <<Ticker(1, Str(<<"x">>))>>,
      <<Ticker(1, Str(<<"1">>)), Ticker(2, Str(<<"-">>))>>,
      <<Ticker(1, Num(0)), Ticker(2, Str(<<"2">>))>>,
      <<Ticker(1, Num(3)), Ticker(2, Str(<<"-", "1">>)), Ticker(3, Str(<<" ", "3">>))>> }

\* More tickers than the ranking window holds.
LongLists ==
    { [i \in 1..(TOP_WINDOW + Surplus) |->
          Ticker(i, IF i <= TOP_WINDOW THEN Str(<<"-", "2">>) ELSE Str(<<"1">>))],
      [i \in 1..(TOP_WINDOW + Surplus) |-> Ticker(i, Str(<<"1">>))] }

TickerLists == ShortLists \cup OddLists \cup LongLists

Timeout == [net |-> "timeout", retCode |-> 0, retMsg |-> "", result |-> <<>>]
BadRequest == [net |-> "ok", retCode |-> 10001, retMsg |-> "bad request", result |-> <<>>]
Ok(result) == [net |-> "ok", retCode |-> 0, retMsg |-> "OK", result |-> result]

TickerResponses == {Timeout, BadRequest} \cup {Ok(l) : l \in TickerLists}

Usdt == [coin |-> "USDT", equity |-> Str(<<"1", "0">>), availableToWithdraw |-> Str(<<"5">>)]
Btc == [coin |-> "BTC", equity |-> Str(<<"1">>), availableToWithdraw |-> None]
UsdtBad == [coin |-> "USDT", equity |-> Str(<<"x">>), availableToWithdraw |-> None]

WalletResponses ==
    {Timeout, BadRequest}
    \cup {Ok(l) : l \in { <<>>, <<[coin |-> <<Usdt>>]>>, <<[coin |-> <<Btc, Usdt>>]>>,
                          <<[coin |-> <<Btc>>]>>, <<[coin |-> <<UsdtBad>>]>> }}

Position(sym, side, size, pnl) ==
    [symbol |-> sym, side |-> side, size |-> size, unrealisedPnl |-> pnl, leverage |-> "10"]
Long == Position("BTCUSDT", "Buy", Str(<<"1">>), Str(<<"3">>))
Short == Position("ETHUSDT", "Sell", Str(<<"2">>), Str(<<"-", "4">>))
Flat == Position("XRPUSDT", "Sell", Str(<<"0">>), None)
BadSize == Position("XRPUSDT", "Buy", Str(<<"x">>), None)

PositionResponses ==
    {Timeout, BadRequest}
    \cup {Ok(l) : l \in { <<>>, <<Flat>>, <<Long>>, <<Flat, Short>>, <<Long, Short>>, <<BadSize>> }}

CredSets == {[api_key |-> k, api_secret |-> x] : k \in {"", "key"}, x \in {"", "secret"}}

NoRequest == [content_length |-> "absent", body |-> [kind |-> "malformed", message |-> NoMessage]]
NoCreds == [api_key |-> "", api_secret |-> ""]
NoExchange == [tickers |-> NoResponse, wallet |-> NoResponse, positions |-> NoResponse]
Ack == [status |-> 200, body |-> "{\"ok\": true}"]
NoHttp == [status |-> 0, body |-> ""]

\* ------------------------------------------------------------ state machine
Init ==
    /\ pc = "idle"
    /\ request = NoRequest
    /\ creds = NoCreds
    /\ chat_id = 0
    /\ command = <<>>
    /\ args = <<>>
    /\ positive = FALSE
    /\ limit = -1
    /\ fetch_limit = -1
    /\ funding_list = <<>>
    /\ exchange = NoExchange
    /\ handler_exc = <<>>
    /\ requests = <<>>
    /\ sent = <<>>
    /\ log = <<>>
    /\ http = NoHttp

\* A POST arrives at the endpoint.
Receive ==
    /\ pc = "idle"
    /\ \E r \in Requests : request' = r
    /\ pc' = "do_POST"
    /\ UNCHANGED <<creds, chat_id, command, args, positive, limit, fetch_limit,
                   funding_list, exchange, handler_exc, requests, sent, log, http>>

\* do_POST up to the call of handle_message: the Content-Length read sits
\* outside the try block; everything after it is inside.
do_POST ==
    /\ pc = "do_POST"
    /\ LET body == IF request.content_length = "absent"
                   THEN [kind |-> "malformed", message |-> NoMessage]
                   ELSE request.body
       IN  IF request.content_length = "invalid"
           THEN /\ pc' = "crashed"
                /\ log' = log
           ELSE IF body.kind = "malformed"
           THEN /\ pc' = "respond"
                /\ log' = Append(log, "JSONDecodeError")
           ELSE IF body.kind = "nonobject"
           THEN /\ pc' = "respond"
                /\ log' = Append(log, "AttributeError")
           ELSE IF body.message.t = "none"
           THEN /\ pc' = "respond"
                /\ log' = log
           ELSE /\ pc' = "handle_message"
                /\ log' = log
    /\ UNCHANGED <<request, creds, chat_id, command, args, positive, limit, fetch_limit,
                   funding_list, exchange, handler_exc, requests, sent, http>>

\* Mutant of Route: an unknown command is answered with the help text.
Route_HelpByDefault(cmd) ==
    CASE cmd \in {<<"/", "f", "u", "n", "d", "i", "n", "g">>, <<"/", "f">>} -> "cmd_funding"
      [] cmd = <<"/", "t", "o", "p">> -> "cmd_top_bottom"
      [] cmd = <<"/", "b", "o", "t", "t", "o", "m">> -> "cmd_top_bottom"
      [] cmd \in {<<"/", "p", "o", "r", "t", "f", "o", "l", "i", "o">>, <<"/", "p">>} -> "cmd_portfolio"
      [] OTHER -> "cmd_help"

Route(cmd) ==
    CASE cmd \in {<<"/", "s", "t", "a", "r", "t">>, <<"/", "h", "e", "l", "p">>} -> "cmd_help"
      [] cmd \in {<<"/", "f", "u", "n", "d", "i", "n", "g">>, <<"/", "f">>} -> "cmd_funding"
      [] cmd = <<"/", "t", "o", "p">> -> "cmd_top_bottom"
      [] cmd = <<"/", "b", "o", "t", "t", "o", "m">> -> "cmd_top_bottom"
      [] cmd \in {<<"/", "p", "o", "r", "t", "f", "o", "l", "i", "o">>, <<"/", "p">>} -> "cmd_portfolio"
      [] OTHER -> "respond"

\* command = parts[0].lower(), cut at the first "@".
CommandOf(text) == BeforeAt(Lower(Split1(text)[1]))
ArgsOf(text) == IF Len(Split1(text)) > 1 THEN Split1(text)[2] ELSE <<>>

\* handle_message up to the call of the command handler.  An exception here
\* is caught by do_POST, which prints it.
handle_message ==
    /\ pc = "handle_message"
    /\ LET message == request.body.message
           id == IF message.chat.t = "dict" THEN message.chat.id ELSE 0
           text == GetOr(message.text, Str(<<>>))
       IN  IF message.t # "dict" \/ message.chat.t = "other"
           THEN /\ pc' = "respond"
                /\ log' = Append(log, "AttributeError")
                /\ UNCHANGED <<chat_id, command, args, positive>>
           ELSE IF id = 0 \/ ~Truthy(text)
           THEN /\ pc' = "respond"
                /\ chat_id' = id
                /\ UNCHANGED <<log, command, args, positive>>
           ELSE IF text.t # "str"
           THEN /\ pc' = "respond"
                /\ chat_id' = id
                /\ log' = Append(log, "AttributeError")
                /\ UNCHANGED <<command, args, positive>>
           ELSE IF Split1(text.s) = <<>>
           THEN /\ pc' = "respond"
                /\ chat_id' = id
                /\ log' = Append(log, "IndexError")
                /\ UNCHANGED <<command, args, positive>>
           ELSE /\ chat_id' = id
                /\ command' = CommandOf(text.s)
                /\ args' = ArgsOf(text.s)
                /\ positive' = (CommandOf(text.s) = <<"/", "t", "o", "p">>)
                /\ pc' = Route(CommandOf(text.s))
                /\ log' = log
    /\ UNCHANGED <<request, creds, limit, fetch_limit, funding_list, exchange,
                   handler_exc, requests, sent, http>>

\* The effects of a handler whose try block ended as r.
Finish(r, ok) ==
    \E h \in {Handled(r)} :
        /\ sent' = sent \o [i \in 1..Len(h.send) |-> send_telegram(chat_id, h.send[i], ok)]
        /\ log' = log \o h.escaped
        /\ handler_exc' = IF r.exc THEN <<r.msg>> ELSE <<>>
        /\ requests' = requests \o r.io
        /\ limit' = r.limit
        /\ fetch_limit' = r.fetch_limit
        /\ funding_list' = r.list
        /\ pc' = "respond"

cmd_help ==
    /\ pc = "cmd_help"
    /\ \E ok \in BOOLEAN : sent' = Append(sent, send_telegram(chat_id, HelpText, ok))
    /\ pc' = "respond"
    /\ UNCHANGED <<request, creds, chat_id, command, args, positive, limit, fetch_limit,
                   funding_list, exchange, handler_exc, requests, log, http>>

cmd_funding ==
    /\ pc = "cmd_funding"
    /\ \E resp \in TickerResponses, ok \in BOOLEAN :
          \E r \in {funding_body(args, resp)} :
              /\ Finish(r, ok)
              /\ exchange' = IF r.io = <<>> THEN exchange ELSE [exchange EXCEPT !.tickers = resp]
    /\ UNCHANGED <<request, creds, chat_id, command, args, positive, http>>

cmd_top_bottom ==
    /\ pc = "cmd_top_bottom"
    /\ \E resp \in TickerResponses, ok \in BOOLEAN :
          \E r \in {top_bottom_body(args, positive, resp)} :
              /\ Finish(r, ok)
              /\ exchange' = IF r.io = <<>> THEN exchange ELSE [exchange EXCEPT !.tickers = resp]
    /\ UNCHANGED <<request, creds, chat_id, command, args, positive, http>>

cmd_portfolio ==
    /\ pc = "cmd_portfolio"
    /\ \E c \in CredSets, wresp \in WalletResponses, presp \in PositionResponses, ok \in BOOLEAN :
          \E r \in {portfolio_body(c, wresp, presp)} :
              /\ Finish(r, ok)
              /\ creds' = c
              /\ exchange' = [exchange EXCEPT
                    !.wallet = IF "wallet-balance" \in {r.io[i] : i \in 1..Len(r.io)}
                               THEN wresp ELSE @,
                    !.positions = IF "position-list" \in {r.io[i] : i \in 1..Len(r.io)}
                                  THEN presp ELSE @]
    /\ UNCHANGED <<request, chat_id, command, args, positive, http>>

\* do_POST after the try block: send_response(200) and the fixed body.
respond ==
    /\ pc = "respond"
    /\ http' = Ack
    /\ pc' = "done"
    /\ UNCHANGED <<request, creds, chat_id, command, args, positive, limit, fetch_limit,
                   funding_list, exchange, handler_exc, requests, sent, log>>

Next ==
    \/ Receive
    \/ do_POST
    \/ handle_message
    \/ cmd_help
    \/ cmd_funding
    \/ cmd_top_bottom
    \/ cmd_portfolio
    \/ respond

Spec == Init /\ [][Next]_vars

\* ------------------------------------------------------------ properties
\* The handler named h has run to its end for the current request.
Ran(h) == pc \in {"respond", "done"} /\ command # <<>> /\ Route(command) = h

\* The inbound message of the current request and what it carries.
InMessage == request.body.message
InText == IF InMessage.text.t = "str" THEN InMessage.text.s ELSE <<>>
HasChatId == InMessage.chat.t = "dict" /\ InMessage.chat.id # 0
\* The request reached handle_message with a text that has a command token.
HasToken ==
    /\ request.content_length = "valid"
    /\ request.body.kind = "object"
    /\ InMessage.t = "dict"
    /\ Split1(InText) # <<>>

SentTexts == [i \in 1..Len(sent) |-> sent[i].text]

KnownCommands ==
    { <<"/", "s", "t", "a", "r", "t">>, <<"/", "h", "e", "l", "p">>,
      <<"/", "f", "u", "n", "d", "i", "n", "g">>, <<"/", "f">>,
      <<"/", "t", "o", "p">>, <<"/", "b", "o", "t", "t", "o", "m">>,
      <<"/", "p", "o", "r", "t", "f", "o", "l", "i", "o">>, <<"/", "p">> }

\* An exchange answer that is an envelope with a non-zero retCode.
ErrorEnvelope(resp) == resp.net = "ok" /\ resp.retCode # 0

\* C1: whenever a fetch of the finished command was answered with a non-zero
\* retCode and message M, the command sent exactly one text, `오류: M`.
C1_ErrorEnvelopeReported ==
    \A f \in {"tickers", "wallet", "positions"} :
        (pc \in {"respond", "done"} /\ ErrorEnvelope(exchange[f]))
            => SentTexts = <<ErrorText(exchange[f].retMsg)>>

\* The two spellings the routing example compares.
SuffixOnArgument == <<"/", "F", " ", "7">> \o Bot
SuffixOnCommand == <<"/", "F">> \o Bot \o <<" ", "7">>
PlainF7 == <<"/", "f", " ", "7">>

\* What handling `/f 7` gives for the exchange answer of the current state.
SameAsPlainF7 ==
    /\ command = CommandOf(PlainF7)
    /\ args = ArgsOf(PlainF7)
    /\ limit = 7
    /\ SentTexts = Handled(funding_body(ArgsOf(PlainF7), exchange.tickers)).send

\* C2 as stated: `/F 7@mybot` is handled exactly as `/f 7` (limit 7, same text).
C2_SuffixOnArgumentAsPlain ==
    (pc \in {"respond", "done"} /\ HasToken /\ HasChatId /\ InText = SuffixOnArgument
        /\ exchange.tickers.net # "none")
        => SameAsPlainF7

\* C2 amended: `/F@mybot 7` (suffix on the command token) is handled exactly as
\* `/f 7`: routed to the ranked-funding handler, limit 7, same outbound text.
C2_SuffixOnCommandAsPlain ==
    (pc \in {"respond", "done"} /\ HasToken /\ HasChatId /\ InText = SuffixOnCommand)
        => /\ Ran("cmd_funding")
           /\ exchange.tickers.net # "none"
           /\ SameAsPlainF7

C2_Witness ==
    /\ pc = "done" /\ InText = SuffixOnCommand /\ HasChatId
    /\ Len(sent) = 1 /\ sent[1].text.kind = "funding"
    /\ sent[1].text.title_limit = 7 /\ Len(sent[1].text.lines) = 3

\* get_funding_rates returned normally in the current state.
Ranked == pc \in {"respond", "done"} /\ fetch_limit >= 0 /\ handler_exc = <<>>

SortedByAbs(l) ==
    \A i \in 1..(Len(l) - 1) : Abs(l[i].funding_rate) >= Abs(l[i + 1].funding_rate)

PrescribedLimit(a, default, max) ==
    IF IsDecimal(Strip(a)) THEN Min(DecimalValue(Strip(a)), max) ELSE Min(default, max)

ShownLines == IF Len(sent) = 1 /\ sent[1].text.kind \in {"funding", "filtered"}
              THEN Len(sent[1].text.lines) ELSE 0

\* C4: the effective limit of a list command is the prescribed one, no
\* argument makes the command fail, at most max entries are listed, and
\* exactly the limit when the exchange has that many quotes.
C4_EffectiveLimit ==
    /\ Ran("cmd_funding") =>
          /\ limit = PrescribedLimit(args, FUNDING_DEFAULT, FUNDING_MAX)
          /\ ShownLines <= FUNDING_MAX
          /\ (handler_exc = <<>> /\ Len(funding_list) >= limit) => ShownLines = limit
    /\ Ran("cmd_top_bottom") =>
          /\ limit = PrescribedLimit(args, TOP_DEFAULT, TOP_MAX)
          /\ ShownLines <= TOP_MAX

\* C5: every POST that has been processed to its end was answered with 200
\* and the fixed body.
C5_AlwaysAcknowledged ==
    pc \in {"done", "crashed"} => http = Ack

\* C6: an exception raised in the try block of a command handler is caught
\* there: exactly one text, `오류: {message}`, goes to the chat of the
\* command, nothing reaches do_POST's except clause, and the POST is
\* acknowledged.
C6_HandlerCatches ==
    (pc \in {"respond", "done"} /\ handler_exc # <<>>)
        => /\ Len(sent) = 1
           /\ sent[1].text = ErrorText(handler_exc[1])
           /\ sent[1].chat_id = InMessage.chat.id
           /\ log = <<>>
           /\ (pc = "done" => http = Ack)

C6_Witness ==
    /\ pc = "done" /\ handler_exc = <<"could not convert string to float">>
    /\ Ran("cmd_top_bottom") /\ requests = <<"tickers">>
    /\ Len(sent) = 1 /\ sent[1].text.kind = "error"

\* C7: without an API key or secret the portfolio command issues no exchange
\* request, raises nothing and sends exactly one text, the missing-key notice.
C7_NoCredsNoRequest ==
    (Ran("cmd_portfolio") /\ ~(creds.api_key # "" /\ creds.api_secret # ""))
        => /\ requests = <<>>
           /\ exchange = NoExchange
           /\ handler_exc = <<>>
           /\ log = <<>>
           /\ Len(sent) = 1
           /\ sent[1].text = NoKeyText
           /\ sent[1].chat_id = InMessage.chat.id

C7_Witness ==
    /\ pc = "done" /\ Ran("cmd_portfolio")
    /\ creds.api_key = "key" /\ creds.api_secret = ""
    /\ requests = <<>> /\ Len(sent) = 1 /\ sent[1].text = NoKeyText

\* C8 as stated: an unrecognized token causes no send and no exchange request;
\* a recognized one causes exactly one send, to the chat id of the message.
C8_OneSendPerKnownCommand ==
    (pc = "done" /\ HasToken) =>
        IF CommandOf(InText) \in KnownCommands
        THEN Len(sent) = 1 /\ sent[1].chat_id = InMessage.chat.id
        ELSE sent = <<>> /\ requests = <<>>

\* C8 amended: an unrecognized token causes no send and no exchange request;
\* a recognized token in a message that carries a non-zero chat id causes
\* exactly one send, to that chat id; a message without a chat id (or with
\* id 0) causes no send and no exchange request whatever its token.
C8_OneSendPerKnownCommandWithChat ==
    (pc = "done" /\ HasToken) =>
        IF CommandOf(InText) \in KnownCommands /\ HasChatId
        THEN Len(sent) = 1 /\ sent[1].chat_id = InMessage.chat.id
        ELSE sent = <<>> /\ requests = <<>>

C8_Witness ==
    /\ pc = "done" /\ HasToken /\ InMessage.chat.id = 8
    /\ CommandOf(InText) = <<"/", "b", "o", "t", "t", "o", "m">>
    /\ InText # CommandOf(InText)
    /\ Len(sent) = 1 /\ sent[1].chat_id = 8 /\ requests = <<"tickers">>

\* C9: the footer of a funding reply counts the listed quotes: positive is
\* the number of lines with rate > 0, negative the number with rate < 0, and
\* together they are all the lines.
C9_FooterCounts ==
    \A i \in 1..Len(sent) :
        sent[i].text.kind = "funding" =>
            LET t == sent[i].text
            IN  /\ t.positive = Cardinality({k \in 1..Len(t.lines) : t.lines[k].pct > 0})
                /\ t.negative = Cardinality({k \in 1..Len(t.lines) : t.lines[k].pct < 0})
                /\ t.positive + t.negative = Len(t.lines)

\* C10: a /top (/bottom) reply lists the first min(limit, n) of ALL n
\* positive (negative) rates the exchange returned, by descending magnitude.
C10_TopOfAllTickers ==
    (Ran("cmd_top_bottom") /\ handler_exc = <<>>) =>
        LET tickers == exchange.tickers.result
            rates == [j \in 1..Len(tickers) |->
                        IF Truthy(tickers[j].fundingRate)
                        THEN FloatOf(tickers[j].fundingRate).val ELSE 0]
            wanted == {j \in 1..Len(tickers) :
                         IF positive THEN rates[j] > 0 ELSE rates[j] < 0}
            lines == sent[1].text.lines
        IN  /\ Len(lines) = Min(limit, Cardinality(wanted))
            /\ \A k \in 1..Len(lines) :
                  \* as many wanted rates are at least this large as the rank says
                  Cardinality({j \in wanted : Abs(rates[j]) * 100 > Abs(lines[k].pct)}) < k

====
